---- MODULE Spec2Model ----
(***************************************************************************)
(* The technology-map widget of website/script.js (initTechCanvas): a      *)
(* pannable, zoomable canvas over a node graph with hover and selection.   *)
(*                                                                         *)
(* Numbers.  The script computes with JavaScript numbers.  Here every      *)
(* stored number is a fixed-point integer: scale in units of 1/ScaleUnit,  *)
(* offsets and the drag anchor in units of 1/OffsetUnit pixel.  Every      *)
(* expression is evaluated exactly (as a rational) and rounded to the      *)
(* nearest unit when it is assigned; comparisons (clamping, hit testing)   *)
(* are exact comparisons of rationals by cross-multiplication.             *)
(* Pointer coordinates are whole pixels.  Node identity is the node's      *)
(* position in techNodes (1..Len), None standing for null.  Strings that   *)
(* are compared or concatenated (node ids) are sequences of one-character  *)
(* strings.                                                                *)
(***************************************************************************)
EXTENDS Integers, Sequences, FiniteSets, TLC

\* ------------------------------------------------------------------ bounds
\* The mousedown, mousemove, mouseleave and reset events, and the zoom()
\* calls (wheel or zoom button), one behaviour of Spec may hold.
MaxEvents == 4
MaxZooms == 1
\* Zoom-button presses that may precede the behaviours of SpecZoomed, and
\* the events and zoom() calls one of its behaviours may hold.
MaxPresses == 18
MaxEventsZoomed == 3
MaxZoomsZoomed == 2
\* The preview cards a page of SpecSpotlight may hold and the showNextCard
\* calls one of its behaviours may make.
MaxCards == 6
MaxCalls == 20
\* The events, zoom() calls and showNextCard calls one behaviour of SpecHosts
\* may hold.
MaxEventsHosts == 3
MaxZoomsHosts == 1
MaxCallsHosts == 2
\* The world points SpecHit probes: multiples of 10 up to 10 * MaxProbeX
\* across, multiples of 2 up to 2 * MaxProbeY down.
MaxProbeX == 110
MaxProbeY == 400
\* The significant bits SpecFloat keeps of a number (a double keeps 53), and
\* the zoom() calls one of its behaviours may make.
FloatBits == 10
MaxZoomsFloat == 2

\* ------------------------------------------------------- number representation
ScaleUnit == 1000
OffsetUnit == 10
FactorUnit == 100

None == 0

Max(a, b) == IF a >= b THEN a ELSE b
Min(a, b) == IF a <= b THEN a ELSE b
Abs(a) == IF a >= 0 THEN a ELSE -a
\* a / b rounded to the nearest integer (b > 0), halves upwards.
RoundDiv(a, b) == (2 * a + b) \div (2 * b)
\* The elements of a sequence.
Range(seq) == {seq[k] : k \in DOMAIN seq}

\* -------------------------------------------------------- program constants
DefaultScale == 600
MinScale == 300
MaxScale == 3000
WheelOutFactor == 95
WheelInFactor == 105
ZoomInFactor == 110
ZoomOutFactor == 90
NodeWidth == 140
NodeHeight == 56
MinDistance == 50

\* ------------------------------------------------------------- environment
\* The canvas element: its drawing-buffer size and the bounding client
\* rectangle's corner (the page is not part of the sources; any values do).
Canvas == [width |-> 800, height |-> 600, left |-> 10, top |-> 20]

\* Positions the pointer takes, relative to the canvas corner.
CanvasPoints == << <<360, 270>>, <<120, 120>>, <<30, 10>> >>
NumPoints == Len(CanvasPoints)
Outside == 0
\* The clientX / clientY of an event at point p.
ClientX(p) == CanvasPoints[p][1] + Canvas.left
ClientY(p) == CanvasPoints[p][2] + Canvas.top

\* deltaY of a wheel event.
WheelDeltas == {-100, 0, 100}

\* ------------------------------------------------------------------ strings
\* Code-unit order of the characters node ids are made of.
Alphabet ==
  << "-", "0", "1", "2", "3", "4", "5", "6", "7", "8", "9",
     "a", "b", "c", "d", "e", "f", "g", "h", "i", "j", "k", "l", "m",
     "n", "o", "p", "q", "r", "s", "t", "u", "v", "w", "x", "y", "z" >>
CharCode(c) == CHOOSE i \in 1..Len(Alphabet) : Alphabet[i] = c

\* s < t in JavaScript's string order (by code units, a proper prefix first).
RECURSIVE StrLess(_, _)
StrLess(s, t) ==
  IF t = << >> THEN FALSE
  ELSE IF s = << >> THEN TRUE
  ELSE IF Head(s) = Head(t) THEN StrLess(Tail(s), Tail(t))
  ELSE CharCode(Head(s)) < CharCode(Head(t))

\* description.replace(/\n/, '<br>'): the first newline only.
ReplaceFirstNewline(str) ==
  [i \in DOMAIN str |->
     IF str[i] = "\n" /\ \A j \in 1..(i - 1) : str[j] # "\n"
       THEN "<br>" ELSE str[i]]

\* description.replace(/\n/g, '<br>')
ReplaceNewlines(str) ==
  [i \in DOMAIN str |-> IF str[i] = "\n" THEN "<br>" ELSE str[i]]

\* ------------------------------------------------------------------- graphs
\* A node's description is the sequence of its lines and of the newline
\* characters between them (the bullet character is written "*").
Node(id, name, x, y, description, connections) ==
  [id |-> id, name |-> name, x |-> x, y |-> y, description |-> description,
   connections |-> connections]

IdPython == <<"p","y","t","h","o","n">>
IdOpencv == <<"o","p","e","n","c","v">>
IdMediapipe == <<"m","e","d","i","a","p","i","p","e">>
IdTensorflow == <<"t","e","n","s","o","r","f","l","o","w">>
IdNumpy == <<"n","u","m","p","y">>
IdScikit == <<"s","c","i","k","i","t","-","l","e","a","r","n">>
IdPyqt5 == <<"p","y","q","t","5">>
IdPillow == <<"p","i","l","l","o","w">>
IdPyinstaller == <<"p","y","i","n","s","t","a","l","l","e","r">>
IdPsutil == <<"p","s","u","t","i","l">>

DescPython ==
  << "* Core runtime environment for the entire application",
     "\n",
     "* Orchestrates the complete gesture recognition pipeline",
     "\n",
     "* Ensures cross-platform compatibility across macOS, Windows, and Linux",
     "\n",
     "* Provides the foundation that binds all components together",
     "\n",
     "* Enables rapid development and testing of gesture detection algorithms" >>

DescOpencv ==
  << "* Real-time camera feed capture and processing",
     "\n",
     "* Image preprocessing and enhancement filters",
     "\n",
     "* Noise reduction and lighting condition adaptation",
     "\n",
     "* Frame rate optimization for smooth performance",
     "\n",
     "* Cross-platform camera interface management" >>

DescMediapipe ==
  << "* Hand landmark detection with 21 key points per hand",
     "\n",
     "* Real-time hand pose estimation and tracking",
     "\n",
     "* Converts camera frames to structured hand data",
     "\n",
     "* Enables precise gesture classification",
     "\n",
     "* Optimized for mobile and desktop performance" >>

DescTensorflow ==
  << "* Machine learning engine for gesture classification",
     "\n",
     "* Processes hand landmarks to identify gestures",
     "\n",
     "* Distinguishes between fist, open palm, peace sign, etc.",
     "\n",
     "* Runs entirely on-device for privacy and speed",
     "\n",
     "* Supports both training and inference modes" >>

DescNumpy ==
  << "* Mathematical backbone for all computations",
     "\n",
     "* Handles hand landmark coordinate processing",
     "\n",
     "* Calculates gesture similarity scores and metrics",
     "\n",
     "* Efficient array operations for real-time processing",
     "\n",
     "* Optimized for 30+ FPS performance requirements" >>

DescScikit ==
  << "* Custom gesture training and learning system",
     "\n",
     "* Machine learning algorithms for personalized models",
     "\n",
     "* Adapts to individual hand shape variations",
     "\n",
     "* Creates user-specific gesture recognition patterns",
     "\n",
     "* Enables continuous learning and improvement" >>

DescPyqt5 ==
  << "* Desktop application user interface",
     "\n",
     "* Gesture mapping configuration panel",
     "\n",
     "* Real-time camera preview and monitoring",
     "\n",
     "* Custom gesture training interface",
     "\n",
     "* Settings and preferences management" >>

DescPillow ==
  << "* Image processing and manipulation toolkit",
     "\n",
     "* Icon and visual asset management",
     "\n",
     "* Gesture training data image processing",
     "\n",
     "* Cross-platform image format compatibility",
     "\n",
     "* UI visual enhancement and optimization" >>

DescPyinstaller ==
  << "* Application packaging and deployment",
     "\n",
     "* Creates standalone executables for all platforms",
     "\n",
     "* Bundles all dependencies and resources",
     "\n",
     "* Generates macOS .dmg, Windows .exe, Linux .AppImage",
     "\n",
     "* Enables easy installation without Python setup" >>

DescPsutil ==
  << "* System integration and process management",
     "\n",
     "* Application launching and process control",
     "\n",
     "* System resource monitoring and optimization",
     "\n",
     "* Cross-platform OS interaction",
     "\n",
     "* Bridge between gestures and app execution" >>

\* The graph the widget ships with.
ShippedNodes ==
  << Node(IdPython, "Python", 600, 450, DescPython,
          <<IdOpencv, IdMediapipe, IdPyqt5, IdNumpy, IdTensorflow, IdScikit,
            IdPillow, IdPyinstaller, IdPsutil>>),
     Node(IdOpencv, "OpenCV", 200, 200, DescOpencv, <<IdPython, IdMediapipe, IdNumpy>>),
     Node(IdMediapipe, "MediaPipe", 400, 150, DescMediapipe, <<IdPython, IdOpencv, IdTensorflow>>),
     Node(IdTensorflow, "TensorFlow", 350, 650, DescTensorflow, <<IdPython, IdMediapipe, IdNumpy>>),
     Node(IdNumpy, "NumPy", 150, 450, DescNumpy,
          <<IdPython, IdOpencv, IdTensorflow, IdScikit>>),
     Node(IdScikit, "Scikit-learn", 450, 750, DescScikit, <<IdPython, IdNumpy, IdTensorflow>>),
     Node(IdPyqt5, "PyQt5", 950, 300, DescPyqt5, <<IdPython, IdPillow>>),
     Node(IdPillow, "Pillow", 800, 550, DescPillow, <<IdPython, IdOpencv, IdPyqt5>>),
     Node(IdPyinstaller, "PyInstaller", 1000, 550, DescPyinstaller, <<IdPython, IdPyqt5>>),
     Node(IdPsutil, "psutil", 900, 700, DescPsutil, <<IdPython, IdPyqt5>>) >>

GroupBox(title, x, y, width, height, nodes) ==
  [title |-> title, x |-> x, y |-> y, width |-> width, height |-> height,
   nodes |-> nodes]

\* The group boxes with a member id that no node has.
GroupBoxesStrayMember ==
  << GroupBox("Computer Vision & ML", 100, 100, 350, 400,
              <<IdOpencv, IdMediapipe, IdNumpy>>),
     GroupBox("Core Runtime", 520, 370, 160, 160, <<IdPython>>),
     GroupBox("User Interface", 880, 220, 200, 160, <<IdPyqt5>>),
     GroupBox("Training & Learning", 280, 580, 250, 250,
              <<IdTensorflow, <<"s","k","l","e","a","r","n">> >>),
     GroupBox("System Integration", 720, 470, 400, 280,
              <<IdPillow, IdPyinstaller, IdPsutil>>) >>

\* const groupBoxes
GroupBoxes ==
  << GroupBox("Computer Vision & ML", 100, 100, 350, 400,
              <<IdOpencv, IdMediapipe, IdNumpy>>),
     GroupBox("Core Runtime", 520, 370, 160, 160, <<IdPython>>),
     GroupBox("User Interface", 880, 220, 200, 160, <<IdPyqt5>>),
     GroupBox("Training & Learning", 280, 580, 250, 250,
              <<IdTensorflow, IdScikit>>),
     GroupBox("System Integration", 720, 470, 400, 280,
              <<IdPillow, IdPyinstaller, IdPsutil>>) >>

\* A replacement dataset (spec 4.1: the graph is replaced as a whole): A and
\* B list each other, A lists B twice and itself, C and D overlap, C lists an
\* id no node has and then D, which does not list C; E lists D, whose centre
\* is exactly 50 away, and F lists E, 10 across and 30 down.  The descriptions are
\* one line, empty, two lines with an empty line between, and a line after
\* a leading newline.
ReplacementNodes ==
  << Node(<<"a">>, "A", 0, 0, <<"one">>, << <<"b">>, <<"b">>, <<"a">> >>),
     Node(<<"b">>, "B", 200, 0, << >>, << <<"a">>, <<"c">> >>),
     Node(<<"c">>, "C", 200, 200, <<"x", "\n", "\n", "y">>,
          << <<"z">>, <<"d">>, <<"b">> >>),
     Node(<<"d">>, "D", 260, 220, <<"\n", "z">>, << <<"a">> >>),
     Node(<<"e">>, "E", 290, 260, <<"e">>, << <<"d">> >>),
     Node(<<"f">>, "F", 300, 290, <<"f">>, << <<"e">> >>) >>

\* A graph whose ids hold hyphens: the pairs {a, b-c} and {a-b, c} are both
\* listed, each 200 apart.
HyphenNodes ==
  << Node(<<"a">>, "A", 0, 0, <<"one">>, << <<"b", "-", "c">> >>),
     Node(<<"b", "-", "c">>, "B-C", 200, 0, <<"two">>, << >>),
     Node(<<"a", "-", "b">>, "A-B", 0, 200, <<"three">>, << <<"c">> >>),
     Node(<<"c">>, "C", 200, 200, <<"four">>, << >>) >>

\* The graphs of Spec: no two pairs of their nodes have the same connection
\* key.
DistinctKeyDatasets == << ShippedNodes, ReplacementNodes >>

\* The datasets a widget may be constructed over.
Datasets == DistinctKeyDatasets \o << HyphenNodes >>
NumDatasets == Len(Datasets)

\* ---------------------------------------------------------------- variables
VARIABLES
  dataset,        \* which of Datasets const techNodes holds
  host,           \* which elements the page has: the canvas, the detail
                  \* surface (detailsEl), its title and description slots
  scale,          \* let scale, in 1/ScaleUnit
  offsetX,        \* let offsetX, in 1/OffsetUnit px
  offsetY,        \* let offsetY
  isDragging,     \* let isDragging
  dragStartX,     \* let dragStartX, in 1/OffsetUnit px
  dragStartY,     \* let dragStartY
  hoveredNode,    \* let hoveredNode (index in techNodes, or None)
  selectedNode,   \* let selectedNode
  detailsHidden,  \* detailsEl.classList.contains('hidden')
  detailsTitle,   \* detailsTitle.textContent
  detailsDesc,    \* detailsDesc.innerHTML, as text and '<br>' tokens
  frame,          \* what the last draw() call painted
  pointer,        \* where the pointer is: a point of CanvasPoints or Outside
  buttonDown,     \* the mouse button is held
  armed,          \* the button went down on the canvas
  clickDue,       \* mouseup was delivered, its click event not yet
  last,           \* the handler that ran last: its name, the deltaY of its
                  \* event (wheel) and the scale it started from
  panned,         \* a mousemove has moved the view since the last mousedown
  probe,          \* the last direct getNodeAt call: its point and result
  eventsLeft,     \* pointer / click / reset events still allowed
  zoomsLeft,      \* zoom() calls still allowed
  spotlight       \* startGestureAnimation: the number of .gesture-card
                  \* elements, the cards (0-based) with class 'active',
                  \* currentIndex, whether setInterval was called and how
                  \* often showNextCard has run

vars == << dataset, host, scale, offsetX, offsetY, isDragging, dragStartX,
           dragStartY, hoveredNode, selectedNode, detailsHidden, detailsTitle,
           detailsDesc, frame,
           pointer, buttonDown, armed, clickDue, last, panned, probe,
           eventsLeft, zoomsLeft, spotlight >>

techNodes == Datasets[dataset]

view == << scale, offsetX, offsetY >>
drag == << isDragging, dragStartX, dragStartY >>
env == << pointer, buttonDown, armed, clickDue >>
page == << dataset, host, spotlight >>
details == << detailsHidden, detailsTitle, detailsDesc >>

\* The listeners of initTechCanvas are registered with always.
RegisteredAlways == TRUE

\* initTechCanvas returns before it registers a listener or draws when the
\* page has no canvas.
Registered == host.canvas

\* A page with every element the widget looks up.
FullHost == [canvas |-> TRUE, details |-> TRUE, title |-> TRUE, desc |-> TRUE]


\* ------------------------------------------------------------- hit testing
\* getNodeAt(x, y) for the world point (xn / xd, yn / yd), xd > 0 and yd > 0:
\* the first node, in declaration order, whose rectangle holds the point.
InRect(node, xn, xd, yn, yd) ==
  LET left == node.x - NodeWidth \div 2
      top == node.y - NodeHeight \div 2
  IN  /\ xn >= left * xd
      /\ xn <= (left + NodeWidth) * xd
      /\ yn >= top * yd
      /\ yn <= (top + NodeHeight) * yd

RECURSIVE GetNodeFrom(_, _, _, _, _, _)
GetNodeFrom(nodes, i, xn, xd, yn, yd) ==
  IF i > Len(nodes) THEN None
  ELSE IF InRect(nodes[i], xn, xd, yn, yd) THEN i
  ELSE GetNodeFrom(nodes, i + 1, xn, xd, yn, yd)

\* getNodeAt that keeps looking and returns the last rectangle holding the point.
RECURSIVE GetNodeLastFrom(_, _, _, _, _, _)
GetNodeLastFrom(nodes, i, xn, xd, yn, yd) ==
  IF i < 1 THEN None
  ELSE IF InRect(nodes[i], xn, xd, yn, yd) THEN i
  ELSE GetNodeLastFrom(nodes, i - 1, xn, xd, yn, yd)

GetNodeAtLast(nodes, xn, xd, yn, yd) ==
  GetNodeLastFrom(nodes, Len(nodes), xn, xd, yn, yd)

GetNodeAt(nodes, xn, xd, yn, yd) == GetNodeFrom(nodes, 1, xn, xd, yn, yd)

\* The conversion without the canvas corner: (clientX - offsetX) / scale.
WorldNumNoCorner(client, corner, offset) ==
  (client * OffsetUnit - offset) * ScaleUnit

\* (clientX - rect.left - offsetX) / scale as numerator and denominator.
WorldNum(client, corner, offset) ==
  ((client - corner) * OffsetUnit - offset) * ScaleUnit
WorldDen(s) == s * OffsetUnit

\* The node under the pointer at point p for the viewport (s, ox, oy).
NodeUnder(nodes, p, s, ox, oy) ==
  GetNodeAt(nodes,
            WorldNum(ClientX(p), Canvas.left, ox), WorldDen(s),
            WorldNum(ClientY(p), Canvas.top, oy), WorldDen(s))

\* ------------------------------------------------------------------ drawing
\* techNodes.find(n => n.id === connectionId): the first node with the id.
RECURSIVE FindFrom(_, _, _)
FindFrom(nodes, id, i) ==
  IF i > Len(nodes) THEN None
  ELSE IF nodes[i].id = id THEN i
  ELSE FindFrom(nodes, id, i + 1)

FindNode(nodes, id) == FindFrom(nodes, id, 1)

\* [a, b].sort().join('-')
ConnectionKey(a, b) ==
  IF StrLess(b, a) THEN b \o <<"-">> \o a ELSE a \o <<"-">> \o b

\* The connection loop of draw(): the (source, target) pairs handed to
\* drawRectangularConnection, in order.  i is the node, k the position in
\* its connections list, seen the drawnConnections set.
RECURSIVE ConnectionCallsFrom(_, _, _, _, _)
ConnectionCallsFrom(nodes, i, k, seen, calls) ==
  IF i > Len(nodes) THEN calls
  ELSE IF k > Len(nodes[i].connections)
    THEN ConnectionCallsFrom(nodes, i + 1, 1, seen, calls)
  ELSE LET target == FindNode(nodes, nodes[i].connections[k])
           key == ConnectionKey(nodes[i].id, nodes[target].id)
       IN  IF target = None
             THEN ConnectionCallsFrom(nodes, i, k + 1, seen, calls)
           ELSE IF key \in seen
             THEN ConnectionCallsFrom(nodes, i, k + 1, seen, calls)
           ELSE ConnectionCallsFrom(nodes, i, k + 1, seen \cup {key},
                                    Append(calls, <<i, target>>))

\* The connection loop without the drawnConnections check.
RECURSIVE ConnectionCallsNoSetFrom(_, _, _, _)
ConnectionCallsNoSetFrom(nodes, i, k, calls) ==
  IF i > Len(nodes) THEN calls
  ELSE IF k > Len(nodes[i].connections)
    THEN ConnectionCallsNoSetFrom(nodes, i + 1, 1, calls)
  ELSE LET target == FindNode(nodes, nodes[i].connections[k])
       IN  IF target = None
             THEN ConnectionCallsNoSetFrom(nodes, i, k + 1, calls)
           ELSE ConnectionCallsNoSetFrom(nodes, i, k + 1,
                                         Append(calls, <<i, target>>))

ConnectionCallsNoSet(nodes) == ConnectionCallsNoSetFrom(nodes, 1, 1, << >>)

\* The connection loop giving up on a node's list at the first id that
\* resolves to no node.
RECURSIVE ConnectionCallsStopFrom(_, _, _, _, _)
ConnectionCallsStopFrom(nodes, i, k, seen, calls) ==
  IF i > Len(nodes) THEN calls
  ELSE IF k > Len(nodes[i].connections)
    THEN ConnectionCallsStopFrom(nodes, i + 1, 1, seen, calls)
  ELSE LET target == FindNode(nodes, nodes[i].connections[k])
           key == ConnectionKey(nodes[i].id, nodes[target].id)
       IN  IF target = None
             THEN ConnectionCallsStopFrom(nodes, i + 1, 1, seen, calls)
           ELSE IF key \in seen
             THEN ConnectionCallsStopFrom(nodes, i, k + 1, seen, calls)
           ELSE ConnectionCallsStopFrom(nodes, i, k + 1, seen \cup {key},
                                        Append(calls, <<i, target>>))

ConnectionCallsStopAtUnknown(nodes) ==
  ConnectionCallsStopFrom(nodes, 1, 1, {}, << >>)

ConnectionCalls(nodes) == ConnectionCallsFrom(nodes, 1, 1, {}, << >>)

\* drawRectangularConnection strokes a line only when distance > 50.
DrawsLine(nodes, call) ==
  LET dx == nodes[call[2]].x - nodes[call[1]].x
      dy == nodes[call[2]].y - nodes[call[1]].y
  IN  dx * dx + dy * dy > MinDistance * MinDistance

Centre(node) == <<node.x, node.y>>

\* drawRectangularConnection with the arrowhead at the source node.
ConnectionStrokesArrowAtSource(nodes, call) ==
  IF DrawsLine(nodes, call)
    THEN << [op |-> "line", source |-> call[1], target |-> call[2],
             from |-> Centre(nodes[call[1]]), to |-> Centre(nodes[call[2]])],
            [op |-> "arrow", source |-> call[1], target |-> call[2],
             tip |-> Centre(nodes[call[1]])] >>
    ELSE << >>

\* What drawRectangularConnection(source, target) strokes: the line from the
\* source's centre to the target's and the arrowhead, two barbs that start
\* at the target's centre (their far ends are not modelled); or nothing.
ConnectionStrokes(nodes, call) ==
  IF DrawsLine(nodes, call)
    THEN << [op |-> "line", source |-> call[1], target |-> call[2],
             from |-> Centre(nodes[call[1]]), to |-> Centre(nodes[call[2]])],
            [op |-> "arrow", source |-> call[1], target |-> call[2],
             tip |-> Centre(nodes[call[2]])] >>
    ELSE << >>

\* The strokes of the calls from the k-th on, in order.
RECURSIVE StrokesFrom(_, _, _)
StrokesFrom(nodes, calls, k) ==
  IF k > Len(calls) THEN << >>
  ELSE ConnectionStrokes(nodes, calls[k]) \o StrokesFrom(nodes, calls, k + 1)

\* The connection pass of draw() over each dataset (it reads the graph only):
\* the calls of drawRectangularConnection, those that stroke a line, and
\* the strokes.
ConnectionPass(nodes) ==
  LET calls == ConnectionCalls(nodes)
  IN  [calls |-> calls,
       segments |-> SelectSeq(calls, LAMBDA c : DrawsLine(nodes, c)),
       strokes |-> StrokesFrom(nodes, calls, 1)]

ConnectionPasses == [d \in 1..NumDatasets |-> ConnectionPass(Datasets[d])]

\* draw() over dataset d on a canvas showing `shown`: the transform it
\* applies, the highlights it reads, its connection pass, and how many
\* draw() calls have painted the canvas, modulo 2.
DrawOver(shown, d, s, ox, oy, hovered, selected) ==
  [scale |-> s, offsetX |-> ox, offsetY |-> oy,
   hovered |-> hovered, selected |-> selected,
   calls |-> ConnectionPasses[d].calls,
   segments |-> ConnectionPasses[d].segments,
   strokes |-> ConnectionPasses[d].strokes,
   draws |-> (shown.draws + 1) % 2]

Draw(d, s, ox, oy, hovered, selected) ==
  DrawOver(frame, d, s, ox, oy, hovered, selected)

DrawOp(op, index, args) == [op |-> op, index |-> index, args |-> args]

\* The three layers of a scene, each in its own order.
BoxOps == [b \in DOMAIN GroupBoxes |-> DrawOp("box", b, << >>)]
StrokeOps(f) == [k \in DOMAIN f.strokes |-> DrawOp(f.strokes[k].op, k, << >>)]
NodeOps(nodes, f) ==
  [n \in DOMAIN nodes |-> DrawOp("node", n, <<f.hovered = n, f.selected = n>>)]

\* draw() painting the nodes before the connections.
PaintedNodesFirst(nodes, f) ==
  << DrawOp("clearRect", 0, << >>),
     DrawOp("translate", 0, <<f.offsetX, f.offsetY>>),
     DrawOp("scale", 0, <<f.scale, f.scale>>) >>
    \o BoxOps \o NodeOps(nodes, f) \o StrokeOps(f)

\* The canvas operations the draw() call behind frame f made, in order:
\* clearRect, translate, scale, each group box, each stroke of the
\* connection pass, each node.
Painted(nodes, f) ==
  << DrawOp("clearRect", 0, << >>),
     DrawOp("translate", 0, <<f.offsetX, f.offsetY>>),
     DrawOp("scale", 0, <<f.scale, f.scale>>) >>
    \o BoxOps \o StrokeOps(f) \o NodeOps(nodes, f)

\* No draw() call has painted anything.
NoFrame ==
  [scale |-> 0, offsetX |-> 0, offsetY |-> 0, hovered |-> None,
   selected |-> None, calls |-> << >>, segments |-> << >>, strokes |-> << >>,
   draws |-> 0]

\* --------------------------------------------------------------------- zoom
\* NewScale without its upper clamp.
NewScaleNoMax(s, factor) ==
  Max(MinScale, RoundDiv(s * factor, FactorUnit))

\* Math.max(0.3, Math.min(3, scale * factor))
NewScale(s, factor) ==
  Max(MinScale, Min(MaxScale, RoundDiv(s * factor, FactorUnit)))

\* center - (center - offset) * (newScale / scale), center in whole pixels.
ZoomOffset(center, offset, s, newScale) ==
  center * OffsetUnit - RoundDiv((center * OffsetUnit - offset) * newScale, s)

\* zoom() that moves the offset by the requested factor, not by the ratio of
\* the clamped scale to the old one.
ZoomViewByFactor(v, factor, centerX, centerY) ==
  << NewScale(v[1], factor),
     centerX * OffsetUnit
       - RoundDiv((centerX * OffsetUnit - v[2]) * factor, FactorUnit),
     centerY * OffsetUnit
       - RoundDiv((centerY * OffsetUnit - v[3]) * factor, FactorUnit) >>

\* zoom(factor, centerX, centerY) on the viewport v = <<scale, offsetX, offsetY>>.
ZoomView(v, factor, centerX, centerY) ==
  LET newScale == NewScale(v[1], factor)
  IN  << newScale,
         ZoomOffset(centerX, v[2], v[1], newScale),
         ZoomOffset(centerY, v[3], v[1], newScale) >>

\* The default pivot: canvas.width / 2, canvas.height / 2.
CenterX == Canvas.width \div 2
CenterY == Canvas.height \div 2

\* The viewport after n presses of a zoom button.
RECURSIVE Pressed(_, _, _)
Pressed(v, factor, n) ==
  IF n = 0 THEN v
  ELSE CHOOSE r \in {Pressed(w, factor, n - 1) :
                       w \in {ZoomView(v, factor, CenterX, CenterY)}} : TRUE

\* ---------------------------------------------------------------- spotlight
\* showNextCard that adds the class without removing it from the others.
ShowNextCardKeepsActive(sp) ==
  [sp EXCEPT !.active = sp.active \cup {sp.currentIndex},
             !.currentIndex = (sp.currentIndex + 1) % sp.cards,
             !.calls = sp.calls + 1]

\* showNextCard(): 'active' is removed from every card and added to
\* cards[currentIndex]; currentIndex advances modulo cards.length.
ShowNextCard(sp) ==
  [sp EXCEPT !.active = {sp.currentIndex},
             !.currentIndex = (sp.currentIndex + 1) % sp.cards,
             !.calls = sp.calls + 1]

\* startGestureAnimation() on a page with n cards, those of `flags` marked
\* 'active' in the markup.
StartGestureAnimation(n, flags) ==
  LET found == [cards |-> n, active |-> flags, currentIndex |-> 0,
                timer |-> FALSE, calls |-> 0]
  IN  IF n = 0 THEN found
      ELSE [ShowNextCard(found) EXCEPT !.timer = TRUE]

\* -------------------------------------------------------------------- state
Ops == {"init", "tick", "getNodeAt", "mousedown", "mousemove", "mouseup", "mouseleave", "wheel",
        "click", "zoomin", "zoomout", "reset", "release", "zoom"}

\* Handler op has run, on an event with this deltaY.
Ran(op, deltaY) == last' = [op |-> op, deltaY |-> deltaY, scale |-> scale]

NoProbe == [x |-> 0, y |-> 0, node |-> None]

TypeOK ==
  /\ dataset \in 1..NumDatasets
  /\ host \in [canvas : BOOLEAN, details : BOOLEAN, title : BOOLEAN,
                desc : BOOLEAN]
  /\ scale \in 1..(10 * ScaleUnit)
  /\ offsetX \in Int /\ offsetY \in Int
  /\ isDragging \in BOOLEAN
  /\ dragStartX \in Int /\ dragStartY \in Int
  /\ hoveredNode \in 0..Len(techNodes)
  /\ selectedNode \in 0..Len(techNodes)
  /\ detailsHidden \in BOOLEAN
  /\ detailsTitle \in {""} \cup {techNodes[n].name : n \in 1..Len(techNodes)}
  /\ detailsDesc \in {<< >>}
       \cup {ReplaceNewlines(techNodes[n].description) : n \in 1..Len(techNodes)}
  /\ pointer \in 0..NumPoints
  /\ buttonDown \in BOOLEAN /\ armed \in BOOLEAN /\ clickDue \in BOOLEAN
  /\ last \in [op : Ops, deltaY : WheelDeltas, scale : 1..(10 * ScaleUnit)]
  /\ panned \in BOOLEAN
  /\ eventsLeft \in 0..Max(MaxEvents, MaxEventsZoomed)
  /\ zoomsLeft \in 0..Max(MaxZooms, MaxZoomsZoomed)
  /\ spotlight \in [cards : 0..MaxCards, active : SUBSET (0..(MaxCards - 1)),
                     currentIndex : 0..MaxCards, timer : BOOLEAN,
                     calls : 0..MaxCalls]

\* The state the script leaves on a page with the elements h: the spotlight
\* sp started, then initTechCanvas: the let declarations and the initial
\* draw(), or nothing without a canvas.  The detail surface starts hidden,
\* its slots empty, and the pointer off the canvas.
Constructed(d, h, sp, v, op, before, events, zooms) ==
  /\ dataset = d
  /\ host = h
  /\ spotlight = sp
  /\ scale = v[1] /\ offsetX = v[2] /\ offsetY = v[3]
  /\ isDragging = FALSE
  /\ dragStartX = 0 /\ dragStartY = 0
  /\ hoveredNode = None
  /\ selectedNode = None
  /\ detailsHidden = TRUE
  /\ detailsTitle = "" /\ detailsDesc = << >>
  /\ frame = IF h.canvas
               THEN DrawOver(NoFrame, d, v[1], v[2], v[3], None, None)
               ELSE NoFrame
  /\ pointer = Outside
  /\ buttonDown = FALSE /\ armed = FALSE /\ clickDue = FALSE
  /\ last = [op |-> op, deltaY |-> 0, scale |-> before]
  /\ panned = FALSE
  /\ probe = NoProbe
  /\ eventsLeft = events
  /\ zoomsLeft = zooms

\* The same on a page with every element and no preview cards (the
\* spotlight and the canvas share no state).
InitWith(d, v, op, before, events, zooms) ==
  Constructed(d, FullHost, StartGestureAnimation(0, {}), v, op, before,
              events, zooms)

Init ==
  \E d \in DOMAIN DistinctKeyDatasets :
    InitWith(d, <<DefaultScale, 0, 0>>, "init", DefaultScale, MaxEvents, MaxZooms)

\* ----------------------------------------------------------------- handlers
\* A pointer-down that also forgets the hovered node.
HandleMouseDownClearsHover ==
  /\ Registered
  /\ ~clickDue /\ ~buttonDown /\ pointer # Outside
  /\ eventsLeft > 0
  /\ isDragging' = TRUE
  /\ dragStartX' = ClientX(pointer) * OffsetUnit - offsetX
  /\ dragStartY' = ClientY(pointer) * OffsetUnit - offsetY
  /\ hoveredNode' = None
  /\ buttonDown' = TRUE /\ armed' = TRUE
  /\ panned' = FALSE
  /\ Ran("mousedown", 0)
  /\ eventsLeft' = eventsLeft - 1
  /\ UNCHANGED << page, probe, view, selectedNode, details,
                  frame, pointer, clickDue, zoomsLeft >>

\* canvas 'mousedown' at the pointer's position.
HandleMouseDown ==
  /\ Registered
  /\ ~clickDue /\ ~buttonDown /\ pointer # Outside
  /\ eventsLeft > 0
  /\ isDragging' = TRUE
  /\ dragStartX' = ClientX(pointer) * OffsetUnit - offsetX
  /\ dragStartY' = ClientY(pointer) * OffsetUnit - offsetY
  /\ buttonDown' = TRUE /\ armed' = TRUE
  /\ panned' = FALSE
  /\ Ran("mousedown", 0)
  /\ eventsLeft' = eventsLeft - 1
  /\ UNCHANGED << page, probe, view, hoveredNode, selectedNode, details,
                  frame, pointer, clickDue, zoomsLeft >>

\* The dragging branch with the hover update of the other branch added.
MouseMoveDragHovers(p) ==
  /\ isDragging
  /\ offsetX' = ClientX(p) * OffsetUnit - dragStartX
  /\ offsetY' = ClientY(p) * OffsetUnit - dragStartY
  /\ hoveredNode' = NodeUnder(techNodes, p, scale, offsetX', offsetY')
  /\ frame' = Draw(dataset, scale, offsetX', offsetY', hoveredNode', selectedNode)
  /\ panned' = (panned \/ offsetX' # offsetX \/ offsetY' # offsetY)
  /\ UNCHANGED scale

\* The dragging branch clearing the hovered node as it pans.
MouseMoveDragClearsHover(p) ==
  /\ isDragging
  /\ offsetX' = ClientX(p) * OffsetUnit - dragStartX
  /\ offsetY' = ClientY(p) * OffsetUnit - dragStartY
  /\ hoveredNode' = None
  /\ frame' = Draw(dataset, scale, offsetX', offsetY', None, selectedNode)
  /\ panned' = (panned \/ offsetX' # offsetX \/ offsetY' # offsetY)
  /\ UNCHANGED scale

\* canvas 'mousemove' to point p, the dragging branch.
MouseMoveDrag(p) ==
  /\ isDragging
  /\ offsetX' = ClientX(p) * OffsetUnit - dragStartX
  /\ offsetY' = ClientY(p) * OffsetUnit - dragStartY
  /\ frame' = Draw(dataset, scale, offsetX', offsetY', hoveredNode, selectedNode)
  /\ panned' = (panned \/ offsetX' # offsetX \/ offsetY' # offsetY)
  /\ UNCHANGED << scale, hoveredNode >>

\* The hover branch redrawing whether or not the hovered node changed.
MouseMoveHoverAlwaysDraws(p) ==
  /\ ~isDragging
  /\ hoveredNode' = NodeUnder(techNodes, p, scale, offsetX, offsetY)
  /\ frame' = Draw(dataset, scale, offsetX, offsetY, hoveredNode', selectedNode)
  /\ UNCHANGED << view, panned >>

\* canvas 'mousemove' to point p, the hover branch.
MouseMoveHover(p) ==
  /\ ~isDragging
  /\ LET node == NodeUnder(techNodes, p, scale, offsetX, offsetY)
     IN  IF node # hoveredNode
           THEN /\ hoveredNode' = node
                /\ frame' = Draw(dataset, scale, offsetX, offsetY, node, selectedNode)
           ELSE UNCHANGED << hoveredNode, frame >>
  /\ UNCHANGED << view, panned >>

HandleMouseMove(p) ==
  /\ Registered
  /\ ~clickDue
  /\ eventsLeft > 0
  /\ \/ MouseMoveDrag(p)
     \/ MouseMoveHover(p)
  /\ pointer' = p
  /\ Ran("mousemove", 0)
  /\ eventsLeft' = eventsLeft - 1
  /\ UNCHANGED << page, probe, drag, selectedNode, details, buttonDown,
                  armed, clickDue, zoomsLeft >>

\* canvas 'mouseup': the button is released over the canvas; the browser
\* then dispatches 'click' when the button also went down on the canvas.
HandleMouseUp ==
  /\ Registered
  /\ ~clickDue /\ buttonDown /\ pointer # Outside
  /\ isDragging' = FALSE
  /\ buttonDown' = FALSE /\ armed' = FALSE
  /\ clickDue' = armed
  /\ Ran("mouseup", 0)
  /\ UNCHANGED << page, probe, panned, view, dragStartX, dragStartY, hoveredNode,
                  selectedNode, details, frame, pointer, eventsLeft,
                  zoomsLeft >>

\* The button is released off the canvas: no listener of the canvas runs.
ReleaseOutside ==
  /\ ~clickDue /\ buttonDown /\ pointer = Outside
  /\ buttonDown' = FALSE /\ armed' = FALSE
  /\ Ran("release", 0)
  /\ UNCHANGED << page, probe, panned, view, drag, hoveredNode, selectedNode,
                  details, frame, pointer, clickDue, eventsLeft, zoomsLeft >>

\* canvas 'mouseleave'.
HandleMouseLeave ==
  /\ Registered
  /\ ~clickDue /\ pointer # Outside
  /\ eventsLeft > 0
  /\ hoveredNode' = None
  /\ frame' = Draw(dataset, scale, offsetX, offsetY, None, selectedNode)
  /\ pointer' = Outside
  /\ Ran("mouseleave", 0)
  /\ eventsLeft' = eventsLeft - 1
  /\ UNCHANGED << page, probe, panned, view, drag, selectedNode, details,
                  buttonDown, armed, clickDue, zoomsLeft >>

\* The detail surface update of handleClick once selectedNode is `selected`.
ShowDetails(selected) ==
  IF selected # None /\ host.details /\ host.title /\ host.desc
    THEN /\ detailsHidden' = FALSE
         /\ detailsTitle' = techNodes[selected].name
         /\ detailsDesc' = ReplaceNewlines(techNodes[selected].description)
  ELSE IF host.details
    THEN /\ detailsHidden' = TRUE
         /\ UNCHANGED << detailsTitle, detailsDesc >>
  ELSE UNCHANGED details

\* handleClick that selects the hit node without the toggle.
ClickNodeNoToggle(node) ==
  /\ selectedNode' = node
  /\ frame' = Draw(dataset, scale, offsetX, offsetY, hoveredNode, selectedNode')
  /\ ShowDetails(selectedNode')

\* The toggle, the redraw and the detail surface update of handleClick for
\* the hit node.
ClickNode(node) ==
  /\ selectedNode' = IF selectedNode = node THEN None ELSE node
  /\ frame' = Draw(dataset, scale, offsetX, offsetY, hoveredNode, selectedNode')
  /\ ShowDetails(selectedNode')

\* handleClick clearing the selection on a click that hits no node.
HandleClickEmptyDeselects ==
  /\ Registered
  /\ clickDue
  /\ IF isDragging
       THEN UNCHANGED << selectedNode, frame, details >>
       ELSE LET node == NodeUnder(techNodes, pointer, scale, offsetX, offsetY)
            IN  IF node # None
                  THEN ClickNode(node)
                  ELSE /\ selectedNode' = None
                       /\ frame' = Draw(dataset, scale, offsetX, offsetY,
                                        hoveredNode, None)
                       /\ ShowDetails(None)
  /\ clickDue' = FALSE
  /\ Ran("click", 0)
  /\ UNCHANGED << page, probe, panned, view, drag, hoveredNode, pointer, buttonDown,
                  armed, eventsLeft, zoomsLeft >>

\* canvas 'click' at the pointer's position.
HandleClick ==
  /\ Registered
  /\ clickDue
  /\ IF isDragging
       THEN UNCHANGED << selectedNode, frame, details >>
       ELSE LET node == NodeUnder(techNodes, pointer, scale, offsetX, offsetY)
            IN  IF node # None
                  THEN ClickNode(node)
                  ELSE UNCHANGED << selectedNode, frame, details >>
  /\ clickDue' = FALSE
  /\ Ran("click", 0)
  /\ UNCHANGED << page, probe, panned, view, drag, hoveredNode, pointer, buttonDown,
                  armed, eventsLeft, zoomsLeft >>

\* zoom() calling draw() before it assigns the new scale and offset.
ZoomDrawsFirst(factor, centerX, centerY) ==
  LET v == ZoomView(view, factor, centerX, centerY)
  IN  /\ frame' = Draw(dataset, scale, offsetX, offsetY, hoveredNode, selectedNode)
      /\ scale' = v[1]
      /\ offsetX' = v[2]
      /\ offsetY' = v[3]

\* zoom(factor, centerX, centerY)
Zoom(factor, centerX, centerY) ==
  LET v == ZoomView(view, factor, centerX, centerY)
  IN  /\ scale' = v[1]
      /\ offsetX' = v[2]
      /\ offsetY' = v[3]
      /\ frame' = Draw(dataset, v[1], v[2], v[3], hoveredNode, selectedNode)

\* The wheel directions exchanged.
WheelFactorSwapped(deltaY) ==
  IF deltaY > 0 THEN WheelInFactor ELSE WheelOutFactor

\* e.deltaY > 0 ? 0.95 : 1.05
WheelFactor(deltaY) == IF deltaY > 0 THEN WheelOutFactor ELSE WheelInFactor

\* canvas 'wheel' with the pointer where it is.
HandleWheel(deltaY) ==
  /\ Registered
  /\ ~clickDue /\ pointer # Outside
  /\ zoomsLeft > 0
  /\ Zoom(WheelFactor(deltaY),
          ClientX(pointer) - Canvas.left, ClientY(pointer) - Canvas.top)
  /\ Ran("wheel", deltaY)
  /\ zoomsLeft' = zoomsLeft - 1
  /\ UNCHANGED << page, probe, panned, drag, hoveredNode, selectedNode, details,
                  env, eventsLeft >>

\* The zoom-in button: zoom(1.1).
ZoomInButton ==
  /\ Registered
  /\ ~clickDue
  /\ zoomsLeft > 0
  /\ Zoom(ZoomInFactor, CenterX, CenterY)
  /\ Ran("zoomin", 0)
  /\ zoomsLeft' = zoomsLeft - 1
  /\ UNCHANGED << page, probe, panned, drag, hoveredNode, selectedNode, details,
                  env, eventsLeft >>

\* The zoom-out button: zoom(0.9).
ZoomOutButton ==
  /\ Registered
  /\ ~clickDue
  /\ zoomsLeft > 0
  /\ Zoom(ZoomOutFactor, CenterX, CenterY)
  /\ Ran("zoomout", 0)
  /\ zoomsLeft' = zoomsLeft - 1
  /\ UNCHANGED << page, probe, panned, drag, hoveredNode, selectedNode, details,
                  env, eventsLeft >>

\* resetView() that forgets the pan offset.
ResetViewKeepsOffset ==
  /\ Registered
  /\ ~clickDue
  /\ eventsLeft > 0
  /\ scale' = DefaultScale
  /\ selectedNode' = None
  /\ frame' = Draw(dataset, DefaultScale, offsetX, offsetY, hoveredNode, None)
  /\ Ran("reset", 0)
  /\ eventsLeft' = eventsLeft - 1
  /\ UNCHANGED << page, probe, panned, offsetX, offsetY, drag, hoveredNode,
                  details, env, zoomsLeft >>

\* resetView() that also clears the hovered node.
ResetViewClearsHover ==
  /\ Registered
  /\ ~clickDue
  /\ eventsLeft > 0
  /\ scale' = DefaultScale
  /\ offsetX' = 0
  /\ offsetY' = 0
  /\ selectedNode' = None
  /\ hoveredNode' = None
  /\ frame' = Draw(dataset, DefaultScale, 0, 0, None, None)
  /\ Ran("reset", 0)
  /\ eventsLeft' = eventsLeft - 1
  /\ UNCHANGED << page, probe, panned, drag, details, env, zoomsLeft >>

\* The reset button: resetView().
ResetView ==
  /\ Registered
  /\ ~clickDue
  /\ eventsLeft > 0
  /\ scale' = DefaultScale
  /\ offsetX' = 0
  /\ offsetY' = 0
  /\ selectedNode' = None
  /\ frame' = Draw(dataset, DefaultScale, 0, 0, hoveredNode, None)
  /\ Ran("reset", 0)
  /\ eventsLeft' = eventsLeft - 1
  /\ UNCHANGED << page, probe, panned, drag, hoveredNode, details, env, zoomsLeft >>

Next ==
  \/ HandleMouseDown
  \/ \E p \in 1..NumPoints : HandleMouseMove(p)
  \/ HandleMouseUp
  \/ ReleaseOutside
  \/ HandleMouseLeave
  \/ HandleClick
  \/ \E deltaY \in WheelDeltas : HandleWheel(deltaY)
  \/ ZoomInButton
  \/ ZoomOutButton
  \/ ResetView

Spec == Init /\ [][Next]_vars

\* The scale s is within two zoom-button presses of a scale bound.
NearBound(s) ==
  \/ s * ZoomInFactor * ZoomInFactor >= MaxScale * FactorUnit * FactorUnit
  \/ s * ZoomOutFactor * ZoomOutFactor <= MinScale * FactorUnit * FactorUnit

\* Behaviours over the shipped graph that begin after the zoom-in or the
\* zoom-out button has been pressed n times on the freshly constructed
\* widget, far enough to be near a scale bound (each press is ZoomInButton or
\* ZoomOutButton; the presses are folded into the first state so that both
\* scale bounds are within reach of the budget).
InitZoomed ==
  \E n \in 1..MaxPresses, factor \in {ZoomInFactor, ZoomOutFactor} :
    \E before \in {Pressed(<<DefaultScale, 0, 0>>, factor, n - 1)} :
      \E v \in {ZoomView(before, factor, CenterX, CenterY)} :
        /\ NearBound(v[1])
        /\ InitWith(1, v, IF factor = ZoomInFactor THEN "zoomin" ELSE "zoomout",
                    before[1], MaxEventsZoomed, MaxZoomsZoomed)

SpecZoomed == InitZoomed /\ [][Next]_vars

\* ----------------------------------------------------- getNodeAt on its own
ProbeXs == {10 * i : i \in (-8)..MaxProbeX}
ProbeYs == {2 * j : j \in (-20)..MaxProbeY}

\* getNodeAt(x, y) called, once, with the world point (x, y).
CallGetNodeAt(x, y) ==
  /\ probe' = [x |-> x, y |-> y, node |-> GetNodeAt(techNodes, x, 1, y, 1)]
  /\ Ran("getNodeAt", 0)
  /\ UNCHANGED << page, panned, view, drag, hoveredNode, selectedNode,
                  details, frame, env, eventsLeft, zoomsLeft >>

NextHit ==
  /\ last.op = "init"
  /\ \E x \in ProbeXs, y \in ProbeYs : CallGetNodeAt(x, y)

SpecHit == Init /\ [][NextHit]_vars

\* ------------------------------------------------- the spotlight on its own
\* The interval timer fires: showNextCard(), at most `limit` calls in all.
TimerTickUpTo(limit) ==
  /\ spotlight.timer
  /\ spotlight.calls < limit
  /\ spotlight' = ShowNextCard(spotlight)
  /\ Ran("tick", 0)
  /\ UNCHANGED << dataset, host, probe, panned, view, drag, hoveredNode,
                  selectedNode, details, frame, env, eventsLeft, zoomsLeft >>

TimerTick == TimerTickUpTo(MaxCalls)

\* The widget on pages with up to MaxCards preview cards, any of them marked
\* 'active' in the markup; only the timer runs.
InitSpotlight ==
  \E n \in 0..MaxCards, flags \in SUBSET (0..(MaxCards - 1)) :
    /\ flags \subseteq 0..(n - 1)
    /\ Constructed(1, FullHost, StartGestureAnimation(n, flags),
                   <<DefaultScale, 0, 0>>, "init", DefaultScale, 0, 0)

NextSpotlight == TimerTick

SpecSpotlight == InitSpotlight /\ [][NextSpotlight]_vars

\* ------------------------------------------------- pages missing elements
\* The elements a page may have: the slots are looked up inside the detail
\* surface (detailsEl?.querySelector).
Hosts ==
  {h \in [canvas : BOOLEAN, details : BOOLEAN, title : BOOLEAN, desc : BOOLEAN] :
     /\ (h.title \/ h.desc) => h.details
     /\ h.title = h.desc}

TimerTickHosts == TimerTickUpTo(MaxCallsHosts)

\* The widget over the shipped graph on every such page, with no preview
\* card or with one.
InitHosts ==
  \E h \in Hosts, n \in {0, 1} :
    Constructed(1, h, StartGestureAnimation(n, {}), <<DefaultScale, 0, 0>>,
                "init", DefaultScale, MaxEventsHosts, MaxZoomsHosts)

NextHosts == Next \/ TimerTickHosts

SpecHosts == InitHosts /\ [][NextHosts]_vars

\* ------------------------------------------- zoom() in floating point
\* The offsets of SpecFloat are binary floating-point numbers of FloatBits
\* significant bits, counted in 1/OffsetUnit px and no finer than one such
\* unit: every subtraction and multiplication of zoom() rounds its exact
\* result to the nearest of them, ties to the even one, as the arithmetic
\* of doubles does.
RECURSIVE BitLen(_)
BitLen(n) == IF n = 0 THEN 0 ELSE 1 + BitLen(n \div 2)

RECURSIVE Pow2(_)
Pow2(k) == IF k = 0 THEN 1 ELSE 2 * Pow2(k - 1)

\* The distance between neighbouring numbers at magnitude n >= 0.
Spacing(n) ==
  IF BitLen(n) > FloatBits THEN Pow2(BitLen(n) - FloatBits) ELSE 1

\* The multiple of g nearest to n / d (n >= 0, d > 0), ties to even.
RoundRatio(n, d, g) ==
  LET q == n \div (d * g)
      r == n % (d * g)
  IN  IF 2 * r < d * g THEN q * g
      ELSE IF 2 * r > d * g THEN (q + 1) * g
      ELSE IF q % 2 = 0 THEN q * g ELSE (q + 1) * g

\* The number the exact result x of an operation is rounded to.
Fl(x) ==
  IF x >= 0 THEN RoundRatio(x, 1, Spacing(x))
  ELSE -RoundRatio(-x, 1, Spacing(-x))

\* scaleChange = newScale / scale, in units of 2^-FloatBits (the quotient
\* lies between 1/2 and 2).
FlScaleChange(newScale, s) ==
  RoundRatio(newScale * Pow2(FloatBits), s, IF newScale < s THEN 1 ELSE 2)

\* x * scaleChange
FlMul(x, scaleChange) ==
  LET n == Abs(x) * scaleChange
      d == Pow2(FloatBits)
      m == RoundRatio(n, d, Spacing(n \div d))
  IN  IF x >= 0 THEN m ELSE -m

\* center - (center - offset) * scaleChange
ZoomOffsetFloat(center, offset, scaleChange) ==
  LET c == center * OffsetUnit
  IN  Fl(c - FlMul(Fl(c - offset), scaleChange))

\* zoom() that scales the offset by the requested factor, not by the ratio
\* of the clamped scale to the old one.
ZoomViewFloatByFactor(v, factor, centerX, centerY) ==
  LET scaleChange == FlScaleChange(factor, FactorUnit)
  IN  << NewScale(v[1], factor),
         ZoomOffsetFloat(centerX, v[2], scaleChange),
         ZoomOffsetFloat(centerY, v[3], scaleChange) >>

\* zoom(factor, centerX, centerY) on the viewport v, the scale in thousandths
\* as in ZoomView and the offsets in floating point.
ZoomViewFloat(v, factor, centerX, centerY) ==
  LET newScale == NewScale(v[1], factor)
      scaleChange == FlScaleChange(newScale, v[1])
  IN  << newScale,
         ZoomOffsetFloat(centerX, v[2], scaleChange),
         ZoomOffsetFloat(centerY, v[3], scaleChange) >>

\* The pivots zoom() is given: the pointer's positions (handleWheel) and the
\* canvas centre (the buttons).
FloatPivots == Range(CanvasPoints) \cup {<<CenterX, CenterY>>}

\* Offsets a behaviour of SpecFloat starts from, in 1/OffsetUnit px: each is
\* a floating-point number of FloatBits bits.
FloatOffsets == {0, -61, 457, -736}

\* zoom(factor, centerX, centerY) called, with these arguments.
CallZoom(factor, centerX, centerY) ==
  LET v == ZoomViewFloat(view, factor, centerX, centerY)
  IN  /\ zoomsLeft > 0
      /\ scale' = v[1]
      /\ offsetX' = v[2]
      /\ offsetY' = v[3]
      /\ frame' = Draw(dataset, v[1], v[2], v[3], hoveredNode, selectedNode)
      /\ probe' = [x |-> centerX, y |-> centerY, node |-> None]
      /\ Ran("zoom", 0)
      /\ zoomsLeft' = zoomsLeft - 1
      /\ UNCHANGED << page, panned, drag, hoveredNode, selectedNode, details,
                      env, eventsLeft >>

\* The widget over the shipped graph with its viewport at a scale bound or
\* at the default scale and at any of the offsets.
InitFloat ==
  \E s \in {MinScale, DefaultScale, MaxScale}, ox, oy \in FloatOffsets :
    InitWith(1, <<s, ox, oy>>, "init", s, 0, MaxZoomsFloat)

NextFloat ==
  \E factor \in {WheelOutFactor, WheelInFactor, ZoomInFactor, ZoomOutFactor},
     c \in FloatPivots :
    CallZoom(factor, c[1], c[2])

SpecFloat == InitFloat /\ [][NextFloat]_vars

\* ------------------------------------------- a graph with hyphenated ids
\* The widget over HyphenNodes, on a page with every element.
InitKeys ==
  InitWith(NumDatasets, <<DefaultScale, 0, 0>>, "init", DefaultScale,
           MaxEvents, MaxZooms)

SpecKeys == InitKeys /\ [][Next]_vars

\* ================================================================== claims
ZoomOps == {"wheel", "zoomin", "zoomout"}

\* The factor the zoom() call of handler l was given.
RequestedFactor(l) ==
  IF l.op = "zoomin" THEN ZoomInFactor
  ELSE IF l.op = "zoomout" THEN ZoomOutFactor
  ELSE IF l.deltaY > 0 THEN WheelOutFactor ELSE WheelInFactor

\* The node the hit test of a click or hover finds under the pointer now.
NodeUnderPointer ==
  IF pointer = Outside THEN None
  ELSE NodeUnder(techNodes, pointer, scale, offsetX, offsetY)

\* C1: in every reachable state the scale lies in [0.3, 3.0]; a zoom call
\* whose product scale * factor leaves the range ends at the nearer bound,
\* and one whose product is in range ends at the product (to the unit).
C1_ScaleWithinBounds ==
  /\ MinScale <= scale /\ scale <= MaxScale
  /\ last.op \in ZoomOps =>
       LET want == last.scale * RequestedFactor(last)
       IN  /\ want >= MaxScale * FactorUnit => scale = MaxScale
           /\ want <= MinScale * FactorUnit => scale = MinScale
           /\ (MinScale * FactorUnit < want /\ want < MaxScale * FactorUnit) =>
                2 * Abs(scale * FactorUnit - want) <= FactorUnit

\* C1 witness: within a behaviour, a zoom-in press asked for more than 3.0
\* and a zoom-out press for less than 0.3.
C1_Witness ==
  /\ zoomsLeft < MaxZoomsZoomed
  /\ last.op = "zoomin"
  /\ last.scale * ZoomInFactor > MaxScale * FactorUnit
  /\ scale = MaxScale

\* C2: a click that follows a drag which panned the view changes neither the
\* selected node nor the detail surface.
C2_ClickAfterDragKeepsSelection ==
  [][(clickDue /\ ~clickDue' /\ panned) =>
       (selectedNode' = selectedNode /\ detailsHidden' = detailsHidden)]_vars

\* C3: a click that hits node n selects n when n was not selected (whatever
\* was selected before) and selects nothing when n was selected.
C3_ClickToggles ==
  [][(clickDue /\ ~clickDue' /\ ~isDragging /\ NodeUnderPointer # None) =>
       selectedNode' = IF selectedNode = NodeUnderPointer THEN None
                       ELSE NodeUnderPointer]_vars

\* C3 witness: a click has just hit the node that was selected and left
\* nothing selected (the detail surface, hidden again, was shown before).
C3_Witness ==
  /\ last.op = "click"
  /\ NodeUnderPointer # None
  /\ selectedNode = None
  /\ detailsHidden

\* C4: no node selected implies the detail surface is hidden.
C4_NoSelectionHidesDetails == selectedNode = None => detailsHidden

\* C5: right after resetView the scale is the default, the offset (0, 0)
\* and no node is selected.
C5_ResetRestoresDefaults ==
  last.op = "reset" =>
    /\ scale = DefaultScale
    /\ offsetX = 0 /\ offsetY = 0
    /\ selectedNode = None

\* C5 witness: resetView ran in the middle of a drag, with the detail
\* surface of a selected node showing.
C5_Witness ==
  /\ last.op = "reset"
  /\ isDragging /\ buttonDown
  /\ ~detailsHidden

\* The pivot of the zoom() call of handler l: the pointer's position on the
\* canvas for a wheel event, the canvas centre for the buttons.
PivotX(l) == IF l.op = "wheel" THEN CanvasPoints[pointer][1] ELSE Canvas.width \div 2
PivotY(l) == IF l.op = "wheel" THEN CanvasPoints[pointer][2] ELSE Canvas.height \div 2

\* (c - off) / s = (c - off2) / s2 to within the rounding of off2 (half an
\* offset unit on screen): the world point under screen coordinate c is the
\* same for the viewports (s, off) and (s2, off2).
SameWorldPoint(c, s, off, s2, off2) ==
  2 * Abs((c * OffsetUnit - off2) * s - (c * OffsetUnit - off) * s2) <= s

\* C6: every zoom() call, clamped or not, keeps the world point under its
\* pivot; the pivot of a button press is the canvas centre.
C6_ZoomKeepsPivot ==
  [][zoomsLeft' = zoomsLeft - 1 =>
       /\ SameWorldPoint(PivotX(last'), scale, offsetX, scale', offsetX')
       /\ SameWorldPoint(PivotY(last'), scale, offsetY, scale', offsetY')]_vars

\* C6 witness: a wheel event away from the canvas centre asked for more than
\* 3.0 from a smaller scale and was clamped.
C6_Witness ==
  /\ zoomsLeft < MaxZoomsZoomed
  /\ last.op = "wheel"
  /\ last.scale < MaxScale
  /\ last.scale * RequestedFactor(last) > MaxScale * FactorUnit
  /\ scale = MaxScale
  /\ CanvasPoints[pointer] # <<Canvas.width \div 2, Canvas.height \div 2>>

\* C7: a wheel zoom-in (deltaY < 0) raises the scale while it is below 3.0
\* and leaves it at 3.0 once there; a wheel zoom-out (deltaY > 0) lowers it
\* while above 0.3 and leaves it at 0.3 once there.
C7_WheelMonotoneUntilBound ==
  /\ (last.op = "wheel" /\ last.deltaY < 0) =>
       /\ last.scale < MaxScale => scale > last.scale
       /\ last.scale = MaxScale => scale = MaxScale
  /\ (last.op = "wheel" /\ last.deltaY > 0) =>
       /\ last.scale > MinScale => scale < last.scale
       /\ last.scale = MinScale => scale = MinScale

\* C7 witness: the second of two wheel events in a row, a zoom-in, found the
\* scale at 3.0 already.
C7_Witness ==
  /\ zoomsLeft = MaxZoomsZoomed - 2
  /\ last.op = "wheel" /\ last.deltaY < 0
  /\ last.scale = MaxScale
  /\ scale = MaxScale

\* The 140 x 56 rectangle centred at the node holds the world point (x, y).
Contains(node, x, y) ==
  /\ 2 * Abs(x - node.x) <= NodeWidth
  /\ 2 * Abs(y - node.y) <= NodeHeight

Holders == {i \in 1..Len(techNodes) : Contains(techNodes[i], probe.x, probe.y)}

\* C8: getNodeAt returns none for a point in no rectangle and otherwise the
\* first node, in declaration order, whose rectangle holds the point.
C8_FirstRectangleWins ==
  last.op = "getNodeAt" =>
    IF Holders = {} THEN probe.node = None
    ELSE probe.node \in Holders /\ \A i \in Holders : probe.node <= i

\* C8 witness: a point inside two overlapping rectangles was probed.
C8_Witness ==
  /\ last.op = "getNodeAt"
  /\ Cardinality(Holders) >= 2
  /\ probe.node # None

\* C9: the calls of drawRectangularConnection in one redraw hold no
\* unordered pair of nodes twice.
C9_NoPairDrawnTwice ==
  Cardinality({Range(frame.calls[k]) : k \in DOMAIN frame.calls})
    = Len(frame.calls)

\* C9 witness: the redraw handed over a pair of nodes that list each other,
\* one of them listing the other twice.
C9_Witness ==
  \E c \in Range(frame.calls) :
    LET a == techNodes[c[1]]
        b == techNodes[c[2]]
    IN  /\ c[1] # c[2]
        /\ a.id \in Range(b.connections)
        /\ Cardinality({k \in DOMAIN a.connections : a.connections[k] = b.id}) >= 2

\* C10, as claimed: the widget is never in a drag and hovering a node.
C10_DragExcludesHover == ~(isDragging /\ hoveredNode # None)

\* C10, amended: no step that ends in a drag gives the widget a new hovered
\* node; the hovered node stays as it was or is cleared.
C10_DragKeepsHover ==
  [][isDragging' => (hoveredNode' = hoveredNode \/ hoveredNode' = None)]_vars

\* C10 witness: a drag has panned the view while a node stayed hovered.
C10_Witness ==
  /\ isDragging /\ panned
  /\ last.op = "mousemove"
  /\ hoveredNode # None

\* The transform of draw(), translate(offset) then scale(scale), puts world
\* coordinate w at screen coordinate w * s + off; it is within half a pixel
\* of the whole pixel c (pointer positions are whole pixels).
DrawnAt(w, s, off, c) ==
  2 * Abs(w * s * OffsetUnit + off * ScaleUnit - c * ScaleUnit * OffsetUnit)
    <= ScaleUnit * OffsetUnit

\* The centre of node n is drawn where the pointer is.
CentreUnderPointer(n) ==
  /\ pointer # Outside
  /\ DrawnAt(techNodes[n].x, scale, offsetX, CanvasPoints[pointer][1])
  /\ DrawnAt(techNodes[n].y, scale, offsetY, CanvasPoints[pointer][2])

\* The world point handleClick computes for the pointer lies in node m.
ClickPointIn(m) ==
  InRect(techNodes[m],
         WorldNum(ClientX(pointer), Canvas.left, offsetX), WorldDen(scale),
         WorldNum(ClientY(pointer), Canvas.top, offsetY), WorldDen(scale))

\* No two rectangles of the graph share a point.
RectanglesApart(nodes) ==
  \A m, n \in 1..Len(nodes) :
    m # n => \/ Abs(nodes[m].x - nodes[n].x) > NodeWidth
             \/ Abs(nodes[m].y - nodes[n].y) > NodeHeight

\* C11: the click's screen-to-world conversion undoes the transform of the
\* renderer: a click, not in a drag, where the centre of node n is drawn
\* computes a world point inside n's rectangle, and selects n when n was not
\* selected and no earlier rectangle holds the point, which is so for every
\* node of the shipped graph, whose rectangles are apart.
C11_ClickAtDrawnCentreSelects ==
  [][(clickDue /\ ~clickDue' /\ ~isDragging) =>
       /\ dataset = 1 => RectanglesApart(techNodes)
       /\ \A n \in 1..Len(techNodes) :
            CentreUnderPointer(n) =>
              /\ ClickPointIn(n)
              /\ ((\A m \in 1..(n - 1) : ~ClickPointIn(m)) /\ selectedNode # n)
                    => selectedNode' = n]_vars

\* C11 witness: after a wheel zoom about a node's centre, which changed both
\* scale and offset, a click on that centre has selected the node.
C11_Witness ==
  /\ last.op = "click"
  /\ scale # DefaultScale /\ offsetX # 0
  /\ selectedNode # None
  /\ CentreUnderPointer(selectedNode)

\* The text out shows the description desc with each of its lines on a line
\* of its own: a line break wherever desc has a newline, desc's own text
\* everywhere else, and no newline left.
LineBroken(desc, out) ==
  /\ Len(out) = Len(desc)
  /\ \A i \in DOMAIN desc :
       IF desc[i] = "\n" THEN out[i] = "<br>"
       ELSE out[i] = desc[i] /\ out[i] # "<br>"

\* C12: a click that makes node n the selected node, on a page with the
\* detail surface and both its slots, leaves the surface visible, its title
\* n's display name and its description n's description line-broken.
C12_SelectionShowsDetails ==
  [][(clickDue /\ ~clickDue' /\ selectedNode' # None
        /\ selectedNode' # selectedNode
        /\ host.details /\ host.title /\ host.desc) =>
       /\ ~detailsHidden'
       /\ detailsTitle' = techNodes[selectedNode'].name
       /\ LineBroken(techNodes[selectedNode'].description, detailsDesc')]_vars

\* C12 witness: a click has selected a node whose description has several
\* lines, and the surface shows it.
C12_Witness ==
  /\ last.op = "click"
  /\ selectedNode # None
  /\ ~detailsHidden
  /\ detailsTitle = techNodes[selectedNode].name
  /\ Cardinality({i \in DOMAIN detailsDesc : detailsDesc[i] = "<br>"}) >= 2

\* C13: a mousemove handled during a drag leaves the hovered node, the
\* selected node, the scale and the dragging flag as they were (the drag
\* anchor and the detail surface too); only the offset may change.
C13_DragMoveChangesOnlyOffset ==
  [][(last'.op = "mousemove" /\ isDragging) =>
       /\ hoveredNode' = hoveredNode
       /\ selectedNode' = selectedNode
       /\ scale' = scale
       /\ isDragging' = isDragging
       /\ UNCHANGED << dragStartX, dragStartY, details >>]_vars

\* C13 witness: a mousemove of a drag ended over a node's rectangle, the
\* offset moved, and that node is not the hovered one.
C13_Witness ==
  /\ last.op = "mousemove"
  /\ isDragging /\ panned
  /\ NodeUnderPointer # None
  /\ hoveredNode # NodeUnderPointer

\* C14: a mousemove of a drag, from the pointer position the widget saw last
\* to the new one, adds exactly that displacement to the offset the widget
\* held just before the move.
C14_PanAddsDisplacement ==
  [][(last'.op = "mousemove" /\ isDragging /\ pointer # Outside) =>
       /\ offsetX' = offsetX + (ClientX(pointer') - ClientX(pointer)) * OffsetUnit
       /\ offsetY' = offsetY + (ClientY(pointer') - ClientY(pointer)) * OffsetUnit]_vars

\* C15: on a page with n >= 1 preview cards, after the call that starts the
\* rotation and after every timer tick exactly one card is active; the k-th
\* showNextCard call leaves card (k - 1) mod n active, and the rotation
\* index stays in 0..n-1.
C15_SpotlightRotates ==
  spotlight.cards >= 1 =>
    /\ spotlight.calls >= 1
    /\ Cardinality(spotlight.active) = 1
    /\ spotlight.active = {(spotlight.calls - 1) % spotlight.cards}
    /\ spotlight.currentIndex \in 0..(spotlight.cards - 1)

\* C15 witness: over at least three cards the rotation has wrapped around
\* and the first card is active for the second time.
C15_Witness ==
  /\ spotlight.cards >= 3
  /\ last.op = "tick"
  /\ spotlight.calls = spotlight.cards + 1
  /\ spotlight.active = {0}

\* C16: a missing element makes its part of the script a no-op.  Without a
\* canvas nothing was drawn and no event changes the widget's state; without
\* preview cards no timer was started and showNextCard never ran; with a
\* canvas and no detail surface a click that hits a node toggles the
\* selection and redraws, and the detail surface's state is not touched.
C16_MissingElementsAreNoOps ==
  /\ [](/\ ~host.canvas => frame = NoFrame
        /\ spotlight.cards = 0 =>
             (~spotlight.timer /\ spotlight.calls = 0 /\ spotlight.active = {}))
  /\ [][/\ ~host.canvas =>
             UNCHANGED << view, drag, hoveredNode, selectedNode, details,
                          frame, env >>
        /\ spotlight.cards = 0 => UNCHANGED spotlight
        /\ (clickDue /\ ~clickDue' /\ ~isDragging /\ ~host.details
              /\ NodeUnderPointer # None) =>
             /\ selectedNode' = IF selectedNode = NodeUnderPointer THEN None
                                ELSE NodeUnderPointer
             /\ frame' = Draw(dataset, scale, offsetX, offsetY, hoveredNode,
                              selectedNode')
             /\ UNCHANGED details]_vars

\* C16 witness: on a page with a canvas, no detail surface and no preview
\* cards, a click has selected a node and the redraw shows it selected.
C16_Witness ==
  /\ host.canvas /\ ~host.details
  /\ spotlight.cards = 0
  /\ last.op = "click"
  /\ selectedNode # None
  /\ frame.selected = selectedNode
  /\ detailsHidden /\ detailsTitle = ""

\* The node the k-th connection id of node i resolves to, or None.
Resolved(i, k) == FindNode(techNodes, techNodes[i].connections[k])

\* The calls of a connection pass over `nodes` are for ids that resolve, and
\* every id that resolves has its pair of nodes among them.
SkipsOnlyUnknown(nodes, calls) ==
  /\ \A c \in Range(calls) :
       \E k \in DOMAIN nodes[c[1]].connections :
         FindNode(nodes, nodes[c[1]].connections[k]) = c[2]
  /\ \A i \in 1..Len(nodes) :
       \A k \in DOMAIN nodes[i].connections :
         LET t == FindNode(nodes, nodes[i].connections[k])
         IN  t # None => \E c \in Range(calls) : Range(c) = {i, t}

\* That, for the connection pass of each dataset.
UnknownSkipped ==
  [d \in 1..NumDatasets |->
     SkipsOnlyUnknown(Datasets[d], ConnectionPasses[d].calls)]

\* C17: in every redraw a connection id that resolves to no node gives no
\* call of drawRectangularConnection (every call is for an id that
\* resolves), and every id that does resolve has its pair of nodes among the
\* calls, whatever ids the same list or other lists hold.
C17_UnknownConnectionSkipped ==
  frame # NoFrame =>
    /\ frame.calls = ConnectionPasses[dataset].calls
    /\ UnknownSkipped[dataset]

\* C17 witness: a redraw over a graph where a list holds an id of no node
\* followed by an id that resolves, and the line to the latter was stroked.
C17_Witness ==
  \E i \in 1..Len(techNodes) :
    \E k, k2 \in DOMAIN techNodes[i].connections :
      /\ k < k2
      /\ Resolved(i, k) = None
      /\ Resolved(i, k2) # None
      /\ <<i, Resolved(i, k2)>> \in Range(frame.segments)

\* C18: in the shipped data node ids are pairwise distinct, every id of every
\* connections list is the id of a node, and so is every member id of every
\* group box.
C18_ShippedDataResolves ==
  dataset = 1 =>
    /\ \A m, n \in 1..Len(techNodes) :
         techNodes[m].id = techNodes[n].id => m = n
    /\ \A n \in 1..Len(techNodes) :
         \A k \in DOMAIN techNodes[n].connections :
           FindNode(techNodes, techNodes[n].connections[k]) # None
    /\ \A b \in DOMAIN GroupBoxes :
         \A k \in DOMAIN GroupBoxes[b].nodes :
           FindNode(techNodes, GroupBoxes[b].nodes[k]) # None

\* C18 witness: the widget has drawn the shipped graph, all ten nodes and
\* five group boxes of it, with a line for a connection of the last node.
C18_Witness ==
  /\ dataset = 1
  /\ Len(techNodes) = 10 /\ Len(GroupBoxes) = 5
  /\ frame # NoFrame
  /\ \E c \in Range(frame.segments) : Len(techNodes) \in Range(c)

\* C19: a mousemove handled while not dragging leaves the hovered node equal
\* to getNodeAt of the pointer's world position under the current scale and
\* offset; it redraws when, and only when, that node is not the one hovered
\* before, and leaves selection, scale and offset (and the drag anchor and
\* the detail surface) alone.
C19_HoverFollowsPointer ==
  [][(last'.op = "mousemove" /\ ~isDragging) =>
       LET node == NodeUnder(techNodes, pointer', scale, offsetX, offsetY)
       IN  /\ hoveredNode' = node
           /\ node = hoveredNode => frame' = frame
           /\ node # hoveredNode =>
                (frame'.draws # frame.draws /\ frame'.hovered = node)
           /\ UNCHANGED << selectedNode, view, drag, details >>]_vars

\* C19 witness: in a view whose offset has moved, with a node selected, a
\* mousemove outside a drag has left another node hovered.
C19_Witness ==
  /\ last.op = "mousemove"
  /\ ~isDragging
  /\ offsetX # 0
  /\ hoveredNode # None /\ hoveredNode = NodeUnderPointer
  /\ selectedNode # None /\ selectedNode # hoveredNode
  /\ frame.hovered = hoveredNode

\* C20: a click, not in a drag, whose world position lies in no node's
\* rectangle leaves the selected node, the hovered node, scale, offset, the
\* drag state and the detail surface (visibility, title, description) as
\* they were, and does not redraw.
C20_ClickOnNothingChangesNothing ==
  [][(clickDue /\ ~clickDue' /\ ~isDragging /\ NodeUnderPointer = None) =>
       UNCHANGED << selectedNode, hoveredNode, view, drag, details, frame >>]_vars

\* C20 witness: with a node selected and its details showing, a click has
\* landed where no node is.
C20_Witness ==
  /\ last.op = "click"
  /\ ~isDragging
  /\ pointer # Outside /\ NodeUnderPointer = None
  /\ selectedNode # None
  /\ ~detailsHidden

\* C21: between events the scene drawn last shows the current state: its
\* transform is the current scale and offset and its highlights are the
\* current hovered and selected node (every handler that changes one of
\* them draws after the change).
C21_FrameShowsState ==
  /\ frame.scale = scale
  /\ frame.offsetX = offsetX /\ frame.offsetY = offsetY
  /\ frame.hovered = hoveredNode
  /\ frame.selected = selectedNode

\* C21 witness: a zoom has redrawn, at a new scale and offset, a scene with
\* a hovered node and a selected node.
C21_Witness ==
  /\ last.op \in ZoomOps
  /\ scale # last.scale /\ offsetX # 0
  /\ hoveredNode # None /\ selectedNode # None
  /\ frame.scale = scale /\ frame.selected = selectedNode

\* Nodes m and n of `nodes` list each other.
Mutual(nodes, m, n) ==
  /\ \E k \in DOMAIN nodes[m].connections :
       FindNode(nodes, nodes[m].connections[k]) = n
  /\ \E k \in DOMAIN nodes[n].connections :
       FindNode(nodes, nodes[n].connections[k]) = m

\* The strokes of kind op between nodes m and n, either way round.
StrokesBetween(strokes, op, m, n) ==
  {k \in DOMAIN strokes :
     strokes[k].op = op /\ {strokes[k].source, strokes[k].target} = {m, n}}

\* In a pass over `nodes` every pair m < n of nodes that list each other and
\* lie more than the threshold apart has exactly one line, from m's centre
\* to n's, and exactly one arrowhead, its tip at n's centre.
OneLineEarlierToLater(nodes, strokes) ==
  \A m, n \in 1..Len(nodes) :
    (m < n /\ Mutual(nodes, m, n) /\ DrawsLine(nodes, <<m, n>>)) =>
      /\ Cardinality(StrokesBetween(strokes, "line", m, n)) = 1
      /\ Cardinality(StrokesBetween(strokes, "arrow", m, n)) = 1
      /\ \A k \in StrokesBetween(strokes, "line", m, n) :
           /\ strokes[k].from = <<nodes[m].x, nodes[m].y>>
           /\ strokes[k].to = <<nodes[n].x, nodes[n].y>>
      /\ \A k \in StrokesBetween(strokes, "arrow", m, n) :
           strokes[k].tip = <<nodes[n].x, nodes[n].y>>

\* That, for the connection pass of each dataset.
MutualPairsDrawnOnce ==
  [d \in 1..NumDatasets |->
     OneLineEarlierToLater(Datasets[d], ConnectionPasses[d].strokes)]

\* C22: in every redraw, two nodes that list each other and whose centres
\* are more than the threshold apart get exactly one line, from the centre
\* of the one declared earlier to the centre of the one declared later, and
\* one arrowhead, with its tip at the later one's centre.
C22_MutualPairOneSegment ==
  frame # NoFrame =>
    /\ frame.strokes = ConnectionPasses[dataset].strokes
    /\ MutualPairsDrawnOnce[dataset]

\* C22 witness: the scenario of the spec was drawn: A(0,0) declared before
\* B(200,0), each listing the other, one line from A to B with the tip at B.
C22_Witness ==
  /\ techNodes[1].id = <<"a">> /\ techNodes[2].id = <<"b">>
  /\ Centre(techNodes[1]) = <<0, 0>> /\ Centre(techNodes[2]) = <<200, 0>>
  /\ Mutual(techNodes, 1, 2)
  /\ \E k \in DOMAIN frame.strokes :
       /\ frame.strokes[k].op = "arrow"
       /\ frame.strokes[k].source = 1
       /\ frame.strokes[k].tip = <<200, 0>>

\* The centres of the two nodes of a call are at least the threshold apart.
AtLeastThreshold(nodes, call) ==
  LET dx == nodes[call[2]].x - nodes[call[1]].x
      dy == nodes[call[2]].y - nodes[call[1]].y
  IN  dx * dx + dy * dy >= MinDistance * MinDistance

\* In a pass over `nodes` the calls that stroke a line are those whose
\* centres are not closer than the threshold.
DrawnFromThreshold(nodes, pass) ==
  \A k \in DOMAIN pass.calls :
    AtLeastThreshold(nodes, pass.calls[k]) <=>
      \E j \in DOMAIN pass.strokes :
        /\ pass.strokes[j].source = pass.calls[k][1]
        /\ pass.strokes[j].target = pass.calls[k][2]

DrawnFromThresholdIn ==
  [d \in 1..NumDatasets |-> DrawnFromThreshold(Datasets[d], ConnectionPasses[d])]

\* C23: in every redraw a connection gets no line and no arrowhead exactly
\* when its two centres are closer than 50; at 50 or farther it is drawn.
C23_SkippedOnlyBelowThreshold ==
  frame # NoFrame =>
    /\ frame.strokes = ConnectionPasses[dataset].strokes
    /\ DrawnFromThresholdIn[dataset]

\* The place of a canvas operation in the back-to-front order.
Layer(o) ==
  CASE o.op = "clearRect" -> 0
    [] o.op = "translate" -> 1
    [] o.op = "scale" -> 2
    [] o.op = "box" -> 3
    [] o.op \in {"line", "arrow"} -> 4
    [] o.op = "node" -> 5

\* The indexes of the operations of kind op, in the order they were made.
IndexesOf(ops, op) ==
  LET picked == SelectSeq(ops, LAMBDA o : o.op = op)
  IN  [k \in DOMAIN picked |-> picked[k].index]

\* C24: every redraw clears the canvas, applies the offset and then the
\* scale, and paints group boxes, connections and nodes in that order, the
\* boxes and the nodes each in declaration order: no operation of an earlier
\* layer comes after one of a later layer.
C24_BackToFront ==
  frame # NoFrame =>
    LET ops == Painted(techNodes, frame)
    IN  /\ ops[1].op = "clearRect"
        /\ ops[2] = DrawOp("translate", 0, <<offsetX, offsetY>>)
        /\ ops[3] = DrawOp("scale", 0, <<scale, scale>>)
        /\ \A k \in 1..(Len(ops) - 1) : Layer(ops[k]) <= Layer(ops[k + 1])
        /\ \A k \in 4..Len(ops) : Layer(ops[k]) >= 3
        /\ IndexesOf(ops, "box") = [b \in DOMAIN GroupBoxes |-> b]
        /\ IndexesOf(ops, "node") = [n \in DOMAIN techNodes |-> n]
        /\ Len(SelectSeq(ops, LAMBDA o : Layer(o) = 4)) = Len(frame.strokes)

\* C24 witness: a redraw after a zoom, with a hovered node, painted boxes,
\* lines with arrowheads and nodes.
C24_Witness ==
  /\ last.op \in ZoomOps
  /\ hoveredNode # None
  /\ \E o \in Range(Painted(techNodes, frame)) : o.op = "arrow"
  /\ \E o \in Range(Painted(techNodes, frame)) :
       o = DrawOp("node", hoveredNode, <<TRUE, FALSE>>)

\* C25: right after a wheel event the scale is no larger than before when
\* deltaY was positive, no smaller when it was negative, and the same when
\* it was zero.
C25_WheelFollowsDeltaSign ==
  last.op = "wheel" =>
    /\ last.deltaY > 0 => scale <= last.scale
    /\ last.deltaY < 0 => scale >= last.scale
    /\ last.deltaY = 0 => scale = last.scale

\* C26: the widget is dragging only while the mouse button is held: once the
\* button is up, wherever it was released, isDragging is false.
C26_DragOnlyWhileButtonHeld == ~buttonDown => ~isDragging

\* C27, as claimed: whenever the widget is not dragging and the pointer is
\* on the canvas, the hovered node is the node under the pointer in the
\* current view.
C27_HoverIsNodeUnderPointer ==
  (~isDragging /\ pointer # Outside) => hoveredNode = NodeUnderPointer

\* C27, amended: the hovered node changes only in a mousemove outside a
\* drag, to the node then under the pointer, or in a mouseleave, to none; a
\* zoom, resetView, mousedown, mouseup or click leaves it as it was.
C27_HoverChangesOnlyOnMove ==
  [][hoveredNode' # hoveredNode =>
       \/ /\ last'.op = "mousemove" /\ ~isDragging
          /\ hoveredNode' = NodeUnder(techNodes, pointer', scale', offsetX', offsetY')
       \/ /\ last'.op = "mouseleave"
          /\ hoveredNode' = None]_vars

\* C27 witness: after a zoom or resetView, with the pointer at rest on the
\* canvas and no drag, the hovered node is not the node under the pointer.
C27_Witness ==
  /\ last.op \in ZoomOps \cup {"reset"}
  /\ ~isDragging /\ pointer # Outside
  /\ hoveredNode # NodeUnderPointer

\* C28: frame conditions of the handlers.  A click and a pointer-move that
\* is not a drag leave scale and offset alone; a wheel event and a zoom
\* button leave the selected node, the hovered node and the dragging flag
\* alone; pointer-down and pointer-up leave scale, offset, the hovered node
\* and the selected node alone; resetView leaves the hovered node and the
\* dragging flag alone.
C28_HandlerFrames ==
  [][/\ (\/ last'.op = "click"
         \/ last'.op = "mousemove" /\ ~isDragging)
          => UNCHANGED view
     /\ last'.op \in ZoomOps
          => UNCHANGED << selectedNode, hoveredNode, isDragging >>
     /\ last'.op \in {"mousedown", "mouseup"}
          => UNCHANGED << view, hoveredNode, selectedNode >>
     /\ last'.op = "reset"
          => UNCHANGED << hoveredNode, isDragging >>]_vars

\* A pointer-down ran while a node was hovered and the view was not the
\* default one: hover and view are what they were.
C28_Witness ==
  /\ last.op = "mousedown"
  /\ hoveredNode # None
  /\ isDragging
  /\ scale # DefaultScale

\* C29 as stated: a zoom() whose clamped result is the scale it started
\* from leaves offsetX and offsetY exactly as they were, whatever the pivot.
C29_ClampedZoomKeepsOffset ==
  [][(last'.op = "zoom" /\ scale' = scale)
       => (offsetX' = offsetX /\ offsetY' = offsetY)]_vars

\* The change such a zoom() makes to an offset, given the pivot coordinate:
\* none when center - offset is a floating-point number, and otherwise no
\* more than the distance between neighbouring numbers at center - offset.
WithinRounding(center, before, after) ==
  LET d == center * OffsetUnit - before
  IN  /\ Abs(after - before) <= Spacing(Abs(d))
      /\ Fl(d) = d => after = before

\* C29, amended: a zoom() whose clamped result is the scale it started from
\* leaves the scale as it was and each offset within the rounding of
\* center - offset, exactly so when that difference is not rounded.
C29_ClampedZoomWithinRounding ==
  [][(last'.op = "zoom" /\ scale' = scale)
       => /\ WithinRounding(probe'.x, offsetX, offsetX')
          /\ WithinRounding(probe'.y, offsetY, offsetY')]_vars

\* zoom() was called at a scale bound it could not pass, about a pivot that
\* is not the canvas centre, on a view whose offset is not zero.
C29_Witness ==
  /\ last.op = "zoom"
  /\ last.scale = scale
  /\ scale \in {MinScale, MaxScale}
  /\ probe.x # CenterX
  /\ offsetX # 0

\* Node m of `nodes` lists node n, or n lists m.
Listed(nodes, m, n) ==
  \/ \E k \in DOMAIN nodes[m].connections :
       FindNode(nodes, nodes[m].connections[k]) = n
  \/ \E k \in DOMAIN nodes[n].connections :
       FindNode(nodes, nodes[n].connections[k]) = m

\* In a pass over `nodes` every pair of distinct nodes that a connection
\* list names and that lies more than the threshold apart has exactly one
\* line.
ListedPairsDrawnOnce(nodes, strokes) ==
  \A m, n \in 1..Len(nodes) :
    (m < n /\ Listed(nodes, m, n) /\ DrawsLine(nodes, <<m, n>>)) =>
      Cardinality(StrokesBetween(strokes, "line", m, n)) = 1

\* No two different unordered pairs of distinct nodes have the same
\* connection key.
KeysTellPairsApart(nodes) ==
  \A m, n, p, q \in 1..Len(nodes) :
    (m < n /\ p < q /\ <<m, n>> # <<p, q>>) =>
      ConnectionKey(nodes[m].id, nodes[n].id)
        # ConnectionKey(nodes[p].id, nodes[q].id)

\* Those two, for the connection pass of each dataset.
PairsDrawnOnceIn ==
  [d \in 1..NumDatasets |->
     /\ ListedPairsDrawnOnce(Datasets[d], ConnectionPasses[d].strokes)
     /\ KeysTellPairsApart(Datasets[d])]

\* C30: in every redraw each unordered pair of distinct existing nodes that
\* some connection list names and whose centres are more than 50 apart has
\* exactly one line, and the connection key of a pair is the key of no
\* other pair.
C30_ListedPairDrawnOnce ==
  frame # NoFrame =>
    /\ frame.strokes = ConnectionPasses[dataset].strokes
    /\ PairsDrawnOnceIn[dataset]
====
